---------------------------- MODULE Spec2Model ----------------------------
(***************************************************************************)
(* Model of backend/main.py: the ECG arrhythmia diagnosis service.         *)
(*                                                                         *)
(* State: the global classifier handle `model`, the model file on disk,    *)
(* the request in flight, and the frame of the most recent handler call    *)
(* (the locals of predict / preprocess_input and the response returned).   *)
(*                                                                         *)
(* Floating-point values are records [k, n, d]: k = "fin" is the rational  *)
(* n/d (d > 0); k = "nan", "pinf", "ninf" are the IEEE special values;     *)
(* k = "big" is a finite float64 whose magnitude exceeds the float32       *)
(* range (sign in n).  The recursive filter is evaluated in fixed point    *)
(* with Resolution steps per unit; the min-max quotient is kept exact.     *)
(***************************************************************************)
EXTENDS Integers, Sequences, FiniteSets, TLC

(***************************************************************************)
(* Bounds of the model.                                                    *)
(***************************************************************************)
\* largest request length enumerated (beyond the 187 the classifier takes)
MaxLen == 190
\* a short request length (around the filter order)
ShortLen == 6
\* sample amplitudes range over -MaxAmp .. MaxAmp
MaxAmp == 2
\* fixed-point steps per amplitude unit
Resolution == 1000

(***************************************************************************)
(* Constants of the program.                                               *)
(***************************************************************************)
\* main.py:11-17
CLASS_NAMES ==
    [i \in 0..4 |-> CASE i = 0 -> "Normal"
                      [] i = 1 -> "Supraventricular Ectopic"
                      [] i = 2 -> "Ventricular Ectopic"
                      [] i = 3 -> "Fusion"
                      [] i = 4 -> "Unknown"]

\* main.py:69-73, the number of timesteps the classifier expects
TENSOR_LEN == 187

\* main.py:46, butter(5, 45.0 / (0.5 * 125), btype='low'): the numerator and
\* denominator of the transfer function, in thousandths (a[0] = 1.000).
\*   b = 0.22678 1.13391 2.26781 2.26781 1.13391 0.22678
\*   a = 1.00000 2.17502 2.30945 1.31837 0.40277 0.05140
butter_b == <<227, 1134, 2268, 2268, 1134, 227>>
butter_a == <<1000, 2175, 2309, 1318, 403, 51>>

(***************************************************************************)
(* Floating-point values.                                                  *)
(***************************************************************************)
Fin(n, d) == [k |-> "fin", n |-> n, d |-> d]
NaN == [k |-> "nan", n |-> 0, d |-> 1]
PosInf == [k |-> "pinf", n |-> 1, d |-> 1]
NegInf == [k |-> "ninf", n |-> -1, d |-> 1]
Big == [k |-> "big", n |-> 1, d |-> 1]
Zero == Fin(0, 1)

\* the sequence s with its elements enumerated (the same sequence)
Tuple(s) == s \o <<>>

IsFinite(x) == x.k = "fin"
IsNaN(x) == x.k = "nan"
IsInf(x) == x.k \in {"pinf", "ninf"}
\* -1, 0, 1: the sign of a value that is not NaN
Sign(x) == IF x.n > 0 THEN 1 ELSE IF x.n < 0 THEN -1 ELSE 0
InfOf(s) == IF s > 0 THEN PosInf ELSE NegInf

\* x < y for values that are not NaN
FLess(x, y) ==
    CASE x.k = "ninf" -> y.k # "ninf"
      [] x.k = "pinf" -> FALSE
      [] y.k = "ninf" -> FALSE
      [] y.k = "pinf" -> TRUE
      [] OTHER -> x.n * y.d < y.n * x.d

\* x - y
FSub(x, y) ==
    CASE IsNaN(x) \/ IsNaN(y) -> NaN
      [] IsInf(x) /\ IsInf(y) -> IF x.k = y.k THEN NaN ELSE x
      [] IsInf(x) -> x
      [] IsInf(y) -> InfOf(-Sign(y))
      [] OTHER -> IF x.d = y.d THEN Fin(x.n - y.n, x.d)
                  ELSE Fin(x.n * y.d - y.n * x.d, x.d * y.d)

\* x / y
FDiv(x, y) ==
    CASE IsNaN(x) \/ IsNaN(y) -> NaN
      [] IsInf(x) /\ IsInf(y) -> NaN
      [] IsInf(x) -> IF Sign(y) < 0 THEN InfOf(-Sign(x)) ELSE x
      [] IsInf(y) -> Zero
      [] y.n = 0 -> IF x.n = 0 THEN NaN ELSE InfOf(Sign(x))
      [] OTHER -> LET num == IF x.d = y.d THEN x.n ELSE x.n * y.d
                      den == IF x.d = y.d THEN y.n ELSE x.d * y.n
                  IN IF den < 0 THEN Fin(-num, -den) ELSE Fin(num, den)

(***************************************************************************)
(* butter_lowpass_filter (main.py:42-48).                                  *)
(***************************************************************************)
\* main.py:107, np.array(request.signal, dtype=np.float32): a float64 beyond
\* the float32 range overflows to an infinity, every other value is kept.
ToFloat32(x) == IF x.k = "big" THEN InfOf(Sign(x)) ELSE x

AsArray(signal) == Tuple([i \in 1..Len(signal) |-> ToFloat32(signal[i])])

\* the sample at index i; zero before the start (lfilter starts at rest) and
\* at an index not yet computed
At(s, i) == IF i >= 1 /\ i <= Len(s) THEN s[i] ELSE Zero

\* a finite value in fixed-point steps
Steps(x) == (x.n * Resolution) \div x.d

\* the samples s[n], s[n-1], ..., s[n-m+1]
Window(s, n, m) == Tuple([j \in 1..m |-> At(s, n - j + 1)])

\* sum over j of c[j] * w[j], for a window w of finite samples
RECURSIVE Dot(_, _, _)
Dot(c, w, j) ==
    IF j > Len(c) THEN 0 ELSE c[j] * Steps(w[j]) + Dot(c, w, j + 1)

\* some c[j] * w[j] is an infinity of sign sg
InfTerm(c, w, sg) ==
    \E j \in 1..Len(c) : /\ IsInf(w[j])
                          /\ c[j] # 0
                          /\ Sign(w[j]) * (IF c[j] > 0 THEN 1 ELSE -1) = sg

\* some c[j] * w[j] is NaN (NaN, or 0 * infinity)
NaNTerm(c, w) ==
    \E j \in 1..Len(c) : (c[j] # 0 /\ IsNaN(w[j])) \/ (c[j] = 0 /\ IsInf(w[j]))

\* the feedback coefficients: -a[1], ..., -a[5] on y[n-1], ..., y[n-5]
Feedback(a) == Tuple([j \in 1..(Len(a) - 1) |-> -a[j + 1]])

\* lfilter's difference equation for output sample n, given y[1..n-1]:
\*   a[0]*y[n] = b[0]*x[n] + ... + b[5]*x[n-5] - a[1]*y[n-1] - ... - a[5]*y[n-5]
lfilter_step(b, a, x, y, n) ==
    LET fb == Feedback(a)
        wx == Window(x, n, Len(b))
        wy == Window(y, n - 1, Len(fb))
    IN IF (\A j \in 1..Len(wx) : IsFinite(wx[j])) /\ (\A j \in 1..Len(wy) : IsFinite(wy[j]))
       THEN Fin((2 * (Dot(b, wx, 1) + Dot(fb, wy, 1)) + a[1]) \div (2 * a[1]),
                Resolution)
       ELSE LET up == InfTerm(b, wx, 1) \/ InfTerm(fb, wy, 1)
                down == InfTerm(b, wx, -1) \/ InfTerm(fb, wy, -1)
            IN CASE NaNTerm(b, wx) \/ NaNTerm(fb, wy) \/ (up /\ down) -> NaN
                 [] up -> PosInf
                 [] OTHER -> NegInf

\* the output samples lo..hi appended in order to y = y[1..lo-1]; the range is
\* halved so that the depth of evaluation stays logarithmic in its length
RECURSIVE lfilter_range(_, _, _, _, _, _)
lfilter_range(b, a, x, y, lo, hi) ==
    IF lo > hi THEN y
    ELSE IF lo = hi THEN Append(y, lfilter_step(b, a, x, y, lo))
    ELSE LET mid == (lo + hi) \div 2
             left == lfilter_range(b, a, x, y, lo, mid)
         IN IF Len(left) = mid   \* left holds the samples 1..mid
            THEN lfilter_range(b, a, x, left, mid + 1, hi)
            ELSE left

\* main.py:47, y = lfilter(b, a, data): one causal pass from rest
lfilter(b, a, data) == lfilter_range(b, a, data, <<>>, 1, Len(data))

\* main.py:42-48
butter_lowpass_filter(data) == lfilter(butter_b, butter_a, data)

(***************************************************************************)
(* preprocess_input (main.py:50-75).                                       *)
(***************************************************************************)
\* the least (sg = 1) or greatest (sg = -1) of s[lo..hi], none of them NaN
RECURSIVE extreme(_, _, _, _)
extreme(s, lo, hi, sg) ==
    IF lo = hi THEN s[lo]
    ELSE LET mid == (lo + hi) \div 2
             l == extreme(s, lo, mid, sg)
             r == extreme(s, mid + 1, hi, sg)
         IN IF (sg = 1 /\ FLess(r, l)) \/ (sg = -1 /\ FLess(l, r)) THEN r ELSE l

\* np.min of a non-empty array: NaN when any element is NaN
np_min(s) ==
    IF \E i \in 1..Len(s) : IsNaN(s[i]) THEN NaN ELSE extreme(s, 1, Len(s), 1)

\* np.max of a non-empty array: NaN when any element is NaN
np_max(s) ==
    IF \E i \in 1..Len(s) : IsNaN(s[i]) THEN NaN ELSE extreme(s, 1, Len(s), -1)

\* a variant of normalize that does not subtract the minimum
normalize_unshifted(filtered) ==
    LET span == FSub(np_max(filtered), np_min(filtered))
    IN Tuple([i \in 1..Len(filtered) |-> FDiv(filtered[i], span)])

\* main.py:61, (filtered - min) / (max - min), elementwise, no guard on max = min
normalize(filtered) ==
    LET lo == np_min(filtered)
        hi == np_max(filtered)
        span == FSub(hi, lo)
    IN Tuple([i \in 1..Len(filtered) |-> FDiv(FSub(filtered[i], lo), span)])

\* main.py:65, reshape(1, -1, 1): one batch of Len(s) timesteps of one channel
reshape(s) == << Tuple([i \in 1..Len(s) |-> <<s[i]>>]) >>

\* main.py:72, np.zeros((1, n, 1))
np_zeros(n) == << Tuple([i \in 1..n |-> <<Zero>>]) >>

\* a variant of fit_length that truncates and never pads
fit_length_no_pad(t) ==
    IF Len(t[1]) > TENSOR_LEN THEN << SubSeq(t[1], 1, TENSOR_LEN) >> ELSE t

\* a variant of fit_length that keeps the last 187 timesteps
fit_length_keep_tail(t) ==
    IF Len(t[1]) > TENSOR_LEN
    THEN << SubSeq(t[1], Len(t[1]) - TENSOR_LEN + 1, Len(t[1])) >>
    ELSE IF Len(t[1]) < TENSOR_LEN
         THEN << t[1] \o np_zeros(TENSOR_LEN - Len(t[1]))[1] >>
         ELSE t

\* a variant of fit_length that pads on the left
fit_length_pad_left(t) ==
    IF Len(t[1]) > TENSOR_LEN THEN << SubSeq(t[1], 1, TENSOR_LEN) >>
    ELSE IF Len(t[1]) < TENSOR_LEN
         THEN << np_zeros(TENSOR_LEN - Len(t[1]))[1] \o t[1] >>
         ELSE t

\* main.py:69-73, truncate to the first 187 timesteps or pad on the right
fit_length(t) ==
    IF Len(t[1]) > TENSOR_LEN THEN << SubSeq(t[1], 1, TENSOR_LEN) >>
    ELSE IF Len(t[1]) < TENSOR_LEN
         THEN << t[1] \o np_zeros(TENSOR_LEN - Len(t[1]))[1] >>
         ELSE t

\* the shape of a tensor of rank 3
Shape(t) == <<Len(t), Len(t[1]), Len(t[1][1])>>
\* the timesteps of the single batch and channel, as a flat sequence
Flat(t) == Tuple([i \in 1..Len(t[1]) |-> t[1][i][1]])

(***************************************************************************)
(* The classifier's answer and its mapping to a diagnosis (main.py:113-126)*)
(***************************************************************************)
\* the number of categories the table names
N_CLASSES == Cardinality(DOMAIN CLASS_NAMES)

\* np.max(prediction): the largest entry of the whole array
prediction_max(prediction) ==
    CHOOSE v \in {prediction[1][i] : i \in 1..Len(prediction[1])} :
        \A j \in 1..Len(prediction[1]) : prediction[1][j] <= v

\* a variant of np_argmax that takes the last occurrence of the largest entry
np_argmax_last(prediction) ==
    (CHOOSE i \in 1..Len(prediction[1]) :
        /\ \A j \in 1..Len(prediction[1]) : prediction[1][j] <= prediction[1][i]
        /\ \A j \in (i + 1)..Len(prediction[1]) : prediction[1][j] < prediction[1][i]) - 1

\* main.py:116, np.argmax(prediction, axis=1)[0]: the 0-based index of the
\* first occurrence of the largest entry of row 0
np_argmax(prediction) ==
    (CHOOSE i \in 1..Len(prediction[1]) :
        /\ \A j \in 1..Len(prediction[1]) : prediction[1][j] <= prediction[1][i]
        /\ \A j \in 1..(i - 1) : prediction[1][j] < prediction[1][i]) - 1

\* main.py:120, CLASS_NAMES.get(predicted_class_id, "Unknown")
class_name(class_id) ==
    IF class_id \in DOMAIN CLASS_NAMES THEN CLASS_NAMES[class_id] ELSE "Unknown"

\* main.py:115-126.  float() of a float32 and int() of an int64 keep the value.
diagnosis(prediction) ==
    [kind |-> "DiagnosisResponse",
     arrhythmia_type |-> class_name(np_argmax(prediction)),
     confidence |-> prediction_max(prediction),
     class_id |-> np_argmax(prediction)]

(***************************************************************************)
(* The chatbot (main.py:129-162).                                          *)
(***************************************************************************)
\* main.py:129-137, each response abbreviated to its opening words
CHATBOT_RESPONSES ==
    [key \in {"normal", "supraventricular ectopic", "ventricular ectopic",
              "fusion", "unknown", "hello", "default"} |->
        CASE key = "normal" -> "A 'Normal' heartbeat, or Normal Sinus Rhythm"
          [] key = "supraventricular ectopic" -> "'Supraventricular Ectopic' (SVE) beat"
          [] key = "ventricular ectopic" -> "'Ventricular Ectopic' (VE) beat"
          [] key = "fusion" -> "A 'Fusion' beat occurs"
          [] key = "unknown" -> "An 'Unknown' beat is a heartbeat"
          [] key = "hello" -> "Hello! I am an arrhythmia information bot."
          [] key = "default" -> "I can provide information on the following"]

\* main.py:141, message.lower(), on the words of the messages enumerated
Lower(word) ==
    CASE word = "Normal" -> "normal"
      [] word = "Hello" -> "hello"
      [] word = "FUSION" -> "fusion"
      [] OTHER -> word

\* needle in word, for lower-case words of the messages enumerated
InWord(needle, word) ==
    \/ needle = word
    \/ needle = "ventricular" /\ word = "supraventricular"
    \/ needle = "normal" /\ word = "abnormal"
    \/ needle = "hi" /\ word = "this"

\* main.py:142-153, `needle in message_lower`; a message is its words in order
Contains(message, needle) ==
    \E i \in 1..Len(message) : InWord(needle, Lower(message[i]))

\* main.py:139-154, the first matching rule wins
get_chatbot_response(message) ==
    CASE Contains(message, "normal") -> CHATBOT_RESPONSES["normal"]
      [] Contains(message, "supraventricular") ->
            CHATBOT_RESPONSES["supraventricular ectopic"]
      [] Contains(message, "ventricular") -> CHATBOT_RESPONSES["ventricular ectopic"]
      [] Contains(message, "fusion") -> CHATBOT_RESPONSES["fusion"]
      [] Contains(message, "unknown") -> CHATBOT_RESPONSES["unknown"]
      [] Contains(message, "hello") \/ Contains(message, "hi") ->
            CHATBOT_RESPONSES["hello"]
      [] OTHER -> CHATBOT_RESPONSES["default"]

(***************************************************************************)
(* The inputs enumerated.                                                  *)
(***************************************************************************)
\* request lengths: empty, one sample, short, around 187, and the longest
Lens == {0, 1, ShortLen, TENSOR_LEN - 1, TENSOR_LEN, TENSOR_LEN + 1, MaxLen}

\* sample values of a request: finite amplitudes, and values that are not
\* finite in float32
Amps == {Fin(v, 1) : v \in (-MaxAmp)..MaxAmp}
NonFinite == {NaN, PosInf}

\* a signal of length L at level c with the value v at position p
Pulse(L, c, p, v) == Tuple([i \in 1..L |-> IF i = p THEN v ELSE Fin(c, 1)])

Signals ==
    {<<>>} \cup
    {Pulse(L, c, p, v) : L \in Lens \ {0}, c \in {0, 1}, p \in {1}, v \in Amps}
    \cup
    {Pulse(L, c, L, v) : L \in Lens \ {0}, c \in {0, 1}, v \in Amps \cup NonFinite \cup {Big}}

\* a classifier output of width n, in hundredths: 0.40 at i and j, 0.05 elsewhere
TwoPeaks(n, i, j) == << Tuple([k \in 1..n |-> IF k \in {i, j} THEN 40 ELSE 5]) >>

\* the classifier's possible answers: every single or tied maximum of a vector
\* of the table's width, the documented example, and vectors one narrower and
\* one wider than the table
Predictions ==
    {TwoPeaks(N_CLASSES, i, j) : i \in 1..N_CLASSES, j \in 1..N_CLASSES}
    \cup {<< <<40, 40, 10, 5, 5>> >>}
    \cup UNION {{TwoPeaks(n, 1, n), TwoPeaks(n, n, n)} :
                    n \in {N_CLASSES - 1, N_CLASSES + 1}}

\* chat messages, as their words
Messages ==
    {<<"what", "is", "a", "Normal", "beat">>, <<"supraventricular">>,
     <<"ventricular", "ectopic">>, <<"FUSION">>, <<"unknown">>, <<"Hello">>,
     <<"this">>, <<"abnormal", "fusion">>, <<"help">>}

(***************************************************************************)
(* State.                                                                  *)
(***************************************************************************)
VARIABLES
    model,              \* main.py:24, the global handle: "None" or "Loaded"
    model_file,         \* whether MODEL_PATH exists on disk
    request,            \* the request in flight, [kind |-> "none"] when idle
    steps,              \* the pipeline steps the last call ran, in order
    input_signal,       \* main.py:107, local of the last predict call
    filtered_signal,    \* main.py:58
    normalized_signal,  \* main.py:61
    processed_signal,   \* main.py:110, the tensor preprocess_input returned
    prediction,         \* main.py:113, the classifier's answer
    response            \* what the last call returned or raised

frame == <<steps, input_signal, filtered_signal, normalized_signal,
           processed_signal, prediction, response>>
vars == <<model, model_file, request, frame>>

NoRequest == [kind |-> "none"]
NoResponse == [kind |-> "none"]

\* a call that runs none of the pipeline and returns r
PlainFrame(r) ==
    /\ steps' = <<>>
    /\ input_signal' = <<>>
    /\ filtered_signal' = <<>>
    /\ normalized_signal' = <<>>
    /\ processed_signal' = <<>>
    /\ prediction' = <<>>
    /\ response' = r

Init ==
    /\ model = "None"
    /\ model_file \in BOOLEAN
    /\ request = NoRequest
    /\ steps = <<>>
    /\ input_signal = <<>>
    /\ filtered_signal = <<>>
    /\ normalized_signal = <<>>
    /\ processed_signal = <<>>
    /\ prediction = <<>>
    /\ response = NoResponse

(***************************************************************************)
(* Environment: the model file appears or disappears; a client sends a     *)
(* request, which the framework parses and routes to its handler.          *)
(***************************************************************************)
FileChange ==
    /\ model_file' = ~model_file
    /\ UNCHANGED <<model, request, frame>>

\* a client sends its next request once it holds the response to the last
Send(req) ==
    /\ request = NoRequest
    /\ response = NoResponse
    /\ request' = req
    /\ UNCHANGED <<model, model_file, frame>>

\* the framework hands the response to the client; the handler's frame is gone
Deliver ==
    /\ response # NoResponse
    /\ PlainFrame(NoResponse)
    /\ UNCHANGED <<model, model_file, request>>

Requests ==
    {[kind |-> "GET /"]}
    \cup {[kind |-> "POST /predict", signal |-> s] : s \in Signals}
    \cup {[kind |-> "POST /chat", message |-> m] : m \in Messages}

(***************************************************************************)
(* The handlers.                                                           *)
(***************************************************************************)
\* a variant of loaded_handle that does not look at the file
loaded_handle_always(exists) == "Loaded"

\* main.py:82-90, the handle load_model assigns
loaded_handle(exists) == IF exists THEN "Loaded" ELSE "None"

\* main.py:78-90
load_model ==
    /\ model' = loaded_handle(model_file)
    /\ PlainFrame(NoResponse)
    /\ UNCHANGED <<model_file, request>>

\* main.py:96
health(handle) == [kind |-> "health", status |-> "ok", model_loaded |-> handle # "None"]

\* main.py:93-96
read_root ==
    /\ request.kind = "GET /"
    /\ request' = NoRequest
    /\ PlainFrame(health(model))
    /\ UNCHANGED <<model, model_file>>

\* main.py:50-75, on the frame: the locals it assigns and the tensor it
\* returns.  np.min of an empty array raises ValueError, and then nothing
\* is normalized or returned.
preprocess_input(signal) ==
    /\ filtered_signal' = butter_lowpass_filter(signal)
    /\ IF Len(filtered_signal') = 0
       THEN /\ normalized_signal' = <<>>
            /\ processed_signal' = <<>>
       ELSE /\ normalized_signal' = normalize(filtered_signal')
            /\ processed_signal' = fit_length(reshape(normalized_signal'))

\* main.py:98-126
predict ==
    /\ request.kind = "POST /predict"
    /\ request' = NoRequest
    /\ UNCHANGED <<model, model_file>>
    /\ IF model = "None"
       THEN PlainFrame([kind |-> "error",
                        error |-> "Model is not loaded. Cannot perform prediction."])
       ELSE /\ input_signal' = AsArray(request.signal)
            /\ preprocess_input(input_signal')
            /\ IF processed_signal' = <<>>
               THEN \* preprocess_input raised: the exception leaves predict
                    /\ steps' = <<"asarray", "lfilter">>
                    /\ prediction' = <<>>
                    /\ response' = [kind |-> "raised", error |-> "ValueError"]
               ELSE \* model.predict answers p, which is mapped to a diagnosis
                    /\ steps' = <<"asarray", "lfilter", "normalize",
                                  "fit_length", "classify">>
                    /\ \E p \in Predictions :
                          /\ prediction' = p
                          /\ response' = diagnosis(p)

\* main.py:156-162
chat ==
    /\ request.kind = "POST /chat"
    /\ request' = NoRequest
    /\ PlainFrame([kind |-> "ChatResponse",
                   reply |-> get_chatbot_response(request.message)])
    /\ UNCHANGED <<model, model_file>>

Next ==
    \/ FileChange
    \/ \E req \in Requests : Send(req)
    \/ Deliver
    \/ load_model
    \/ read_root
    \/ predict
    \/ chat

Spec == Init /\ [][Next]_vars

(***************************************************************************)
(* Vocabulary of the properties.                                           *)
(***************************************************************************)
AllFinite(s) == \A i \in 1..Len(s) : IsFinite(s[i])
\* max(s) = min(s): the min-max quotient divides by zero
ZeroRange(s) == Len(s) >= 1 /\ AllFinite(s) /\ ~FLess(np_min(s), np_max(s))
NonZeroRange(s) == Len(s) >= 1 /\ AllFinite(s) /\ FLess(np_min(s), np_max(s))
\* x is a number in [0.0, 1.0]
InUnit(x) == IsFinite(x) /\ 0 <= x.n /\ x.n <= x.d
IsZero(x) == IsFinite(x) /\ x.n = 0
IsOne(x) == IsFinite(x) /\ x.n = x.d
\* x and y are the same number, or the same special value
SameValue(x, y) ==
    IF IsFinite(x) /\ IsFinite(y) THEN x.n * y.d = y.n * x.d ELSE x.k = y.k
SameValues(s, t) ==
    Len(s) = Len(t) /\ \A i \in 1..Len(s) : SameValue(s[i], t[i])
\* preprocess_input returned a tensor in the last call
Preprocessed == processed_signal # <<>>
\* predict returned a diagnosis in the last call
Diagnosed == response.kind = "DiagnosisResponse"
\* a step in which predict handles the request in flight with the model loaded
PredictStep ==
    request.kind = "POST /predict" /\ request' = NoRequest /\ model # "None"

(***************************************************************************)
(* C1.  For every non-empty input, of any length, preprocess_input returns *)
(* a tensor of shape (1, 187, 1).                                          *)
(***************************************************************************)
C1_TensorShape ==
    Len(input_signal) >= 1 =>
        /\ Preprocessed
        /\ Shape(processed_signal) = <<1, TENSOR_LEN, 1>>

C1_Witness ==
    /\ Len(input_signal) > TENSOR_LEN
    /\ Shape(processed_signal) = <<1, TENSOR_LEN, 1>>
    /\ Diagnosed

(***************************************************************************)
(* C2.  When the filtered signal has zero dynamic range, preprocess_input  *)
(* fails with DegenerateSignalError: no tensor is returned and the         *)
(* classifier is not called.                                               *)
(***************************************************************************)
C2_DegenerateRejected ==
    ZeroRange(filtered_signal) =>
        /\ response = [kind |-> "raised", error |-> "DegenerateSignalError"]
        /\ ~Preprocessed
        /\ prediction = <<>>

(***************************************************************************)
(* C3, as claimed.  For an input longer than 187, the tensor holds the     *)
(* min-max normalization of the filtered first 187 samples of the input.   *)
(***************************************************************************)
C3_NormalizedPrefix ==
    (Len(input_signal) > TENSOR_LEN /\ Preprocessed) =>
        SameValues(Flat(processed_signal),
                   normalize(butter_lowpass_filter(SubSeq(input_signal, 1, TENSOR_LEN))))

(***************************************************************************)
(* C3, amended.  For an input of length L > 187, the tensor holds at each  *)
(* of its 187 positions i the value (f[i] - min f) / (max f - min f),      *)
(* where f is the filtered input and min and max range over all L samples  *)
(* of f; f[1..187] is the filtered signal of the input's first 187 samples.*)
(***************************************************************************)
C3_TruncatedAfterNormalizing ==
    (Len(input_signal) > TENSOR_LEN /\ Preprocessed) =>
        LET f == filtered_signal
            lo == np_min(f)
            hi == np_max(f)
            span == FSub(hi, lo)
            out == Flat(processed_signal)
        IN /\ Len(f) = Len(input_signal)
           /\ Len(out) = TENSOR_LEN
           /\ \A i \in 1..TENSOR_LEN : out[i] = FDiv(FSub(f[i], lo), span)
           /\ SubSeq(f, 1, TENSOR_LEN) =
                 butter_lowpass_filter(SubSeq(input_signal, 1, TENSOR_LEN))

\* the extremum of the filtered signal lies beyond position 187
C3_Witness ==
    /\ Len(input_signal) > TENSOR_LEN
    /\ Diagnosed
    /\ LET head == SubSeq(filtered_signal, 1, TENSOR_LEN)
       IN /\ NonZeroRange(head)
          /\ FLess(np_max(head), np_max(filtered_signal))

(***************************************************************************)
(* C4.  For an input of length 1 <= L < 187 with non-zero filtered range,  *)
(* the tensor holds the L normalized values in order at its first L        *)
(* positions and exactly 0.0 at each of its last 187 - L positions.        *)
(***************************************************************************)
C4_RightPadded ==
    (Len(input_signal) >= 1 /\ Len(input_signal) < TENSOR_LEN
        /\ NonZeroRange(filtered_signal)) =>
        LET L == Len(input_signal)
            out == Flat(processed_signal)
            lo == np_min(filtered_signal)
            span == FSub(np_max(filtered_signal), lo)
        IN /\ Len(out) = TENSOR_LEN
           /\ Len(normalized_signal) = L
           /\ \A i \in 1..L : out[i] = normalized_signal[i]
           /\ \A i \in 1..L :
                 normalized_signal[i] = FDiv(FSub(filtered_signal[i], lo), span)
           /\ \A i \in (L + 1)..TENSOR_LEN : IsZero(out[i])

C4_Witness ==
    /\ Len(input_signal) = ShortLen
    /\ NonZeroRange(filtered_signal)
    /\ Diagnosed
    /\ LET out == Flat(processed_signal)
       IN /\ Len(out) = TENSOR_LEN
          /\ IsOne(out[ShortLen])
          /\ \A i \in (ShortLen + 1)..TENSOR_LEN : IsZero(out[i])

(***************************************************************************)
(* C5.  An empty input, or one holding NaN or an infinity, is rejected     *)
(* with InvalidInputError before it is filtered or normalized; no tensor   *)
(* is produced and the classifier is not called.                           *)
(***************************************************************************)
C5_InvalidInputRejected ==
    [][(PredictStep /\ (Len(request.signal) = 0 \/
                          \E i \in 1..Len(request.signal) :
                              IsNaN(request.signal[i]) \/ IsInf(request.signal[i])))
        => /\ response' = [kind |-> "raised", error |-> "InvalidInputError"]
           /\ filtered_signal' = <<>>
           /\ processed_signal' = <<>>
           /\ prediction' = <<>>]_vars

(***************************************************************************)
(* C6.  For a non-empty finite input whose filtered signal is not          *)
(* constant, every value of the tensor lies in [0.0, 1.0]; before the      *)
(* length fitting the minimum of the filtered signal is at exactly 0.0     *)
(* and its maximum at exactly 1.0.                                         *)
(***************************************************************************)
C6_UnitRange ==
    (Len(input_signal) >= 1 /\ AllFinite(input_signal)
        /\ NonZeroRange(filtered_signal)) =>
        LET out == Flat(processed_signal)
            lo == np_min(filtered_signal)
            hi == np_max(filtered_signal)
        IN /\ Len(out) = TENSOR_LEN
           /\ \A i \in 1..TENSOR_LEN : InUnit(out[i])
           /\ Len(normalized_signal) = Len(filtered_signal)
           /\ \A i \in 1..Len(filtered_signal) :
                 /\ InUnit(normalized_signal[i])
                 /\ filtered_signal[i] = lo => IsZero(normalized_signal[i])
                 /\ filtered_signal[i] = hi => IsOne(normalized_signal[i])

C6_Witness ==
    /\ Len(input_signal) = TENSOR_LEN
    /\ AllFinite(input_signal)
    /\ NonZeroRange(filtered_signal)
    /\ Diagnosed
    /\ LET out == Flat(processed_signal)
       IN /\ \E i \in 1..TENSOR_LEN : IsOne(out[i])
          /\ \E i \in 1..TENSOR_LEN : IsZero(out[i])
          /\ \E i \in 1..TENSOR_LEN : ~IsZero(out[i]) /\ ~IsOne(out[i])

(***************************************************************************)
(* C7.  predict selects the lowest index among the entries tied for the    *)
(* maximum of the probability vector, and reports the value at that index  *)
(* as the confidence; [0.4, 0.4, 0.1, 0.05, 0.05] gives class 0, 'Normal', *)
(* confidence 0.4.                                                         *)
(***************************************************************************)
C7_FirstMaximum ==
    Diagnosed =>
        LET p == prediction[1]
            at == response.class_id + 1
        IN /\ at \in 1..Len(p)
           /\ \A j \in 1..Len(p) : p[j] <= p[at]
           /\ \A j \in 1..(at - 1) : p[j] # p[at]
           /\ response.confidence = p[at]
           /\ p = <<40, 40, 10, 5, 5>> =>
                 /\ response.class_id = 0
                 /\ response.arrhythmia_type = "Normal"
                 /\ response.confidence = 40

C7_Witness ==
    /\ Diagnosed
    /\ prediction = << <<40, 40, 10, 5, 5>> >>
    /\ response.class_id = 0

(***************************************************************************)
(* C8.  When the classifier's answer is not as wide as the category table, *)
(* the mapper signals ShapeMismatchError and returns no diagnosis.         *)
(***************************************************************************)
C8_ShapeMismatchRejected ==
    (prediction # <<>> /\ Len(prediction[1]) # N_CLASSES) =>
        response = [kind |-> "raised", error |-> "ShapeMismatchError"]

(***************************************************************************)
(* C9.  In every diagnosis predict returns, class_id is a key of           *)
(* CLASS_NAMES and arrhythmia_type is CLASS_NAMES[class_id].               *)
(***************************************************************************)
C9_ClassIdInTable ==
    Diagnosed =>
        /\ response.class_id \in DOMAIN CLASS_NAMES
        /\ response.arrhythmia_type = CLASS_NAMES[response.class_id]

(***************************************************************************)
(* C10.  Only load_model writes the handle, and leaves it non-None exactly *)
(* when the model file exists; predict with the handle None returns the    *)
(* 'Model is not loaded' result without preprocessing or classifying;      *)
(* predict, read_root and chat leave the handle unchanged, and read_root   *)
(* reports model_loaded exactly when the handle is non-None.               *)
(***************************************************************************)
C10_HandleDiscipline ==
    [][/\ model' # model => load_model
       /\ load_model => (model' # "None" <=> model_file)
       /\ (request # NoRequest /\ request' = NoRequest) => model' = model
       /\ (request.kind = "POST /predict" /\ request' = NoRequest /\ model = "None") =>
             /\ response' = [kind |-> "error",
                             error |-> "Model is not loaded. Cannot perform prediction."]
             /\ steps' = <<>>
             /\ input_signal' = <<>>
             /\ processed_signal' = <<>>
             /\ prediction' = <<>>
       /\ (request.kind = "GET /" /\ request' = NoRequest) =>
             /\ response'.kind = "health"
             /\ response'.model_loaded = (model # "None")]_vars

C10_Witness ==
    /\ model = "None"
    /\ model_file
    /\ response.kind = "error"

=============================================================================
